---- MODULE Spec2Model ----
(***************************************************************************)
(* Model of the Notizbuch application (src/src/main.rs): the Note record,  *)
(* the NotebookApp state with its store operations, whole-file JSON        *)
(* persistence to notes.json, and the per-frame update callback of the     *)
(* egui display surface.                                                   *)
(*                                                                         *)
(* Text is a sequence of one-character strings, so that splitting,         *)
(* trimming, joining and JSON escaping are computed character by           *)
(* character.  Indices are 0-based as in the source; note i of the Vec is  *)
(* notes[i + 1] of the TLA+ sequence.                                      *)
(***************************************************************************)
EXTENDS Integers, Sequences, FiniteSets, TLC

VARIABLES notes, new_title, new_content, new_tags, edit_index,
          file, clock, panic, last

vars == <<notes, new_title, new_content, new_tags, edit_index,
          file, clock, panic, last>>

(* ------------------------------ bounds --------------------------------- *)

\* Largest collection the add button is exercised on.
MaxNotes == 2
\* Largest value of the wall clock (Utc::now()) explored.
MaxClock == 1
\* Longest raw tags text explored by the tag-parsing specification.
MaxRawLen == 4
\* Clock ticks per second: a timestamp is written as seconds and a fraction.
TicksPerSec == 2

(* ------------------------------ text ----------------------------------- *)

\* edit_index: Option<usize>; None is modelled as -1, Some(i) as i.
None == -1

\* char::is_whitespace, on the alphabet of the model.
IsWhitespace(ch) == ch = " "

RECURSIVE TrimStart(_)
TrimStart(s) ==
  IF s # <<>> /\ IsWhitespace(Head(s)) THEN TrimStart(Tail(s)) ELSE s

RECURSIVE TrimEnd(_)
TrimEnd(s) ==
  IF s # <<>> /\ IsWhitespace(s[Len(s)])
  THEN TrimEnd(SubSeq(s, 1, Len(s) - 1))
  ELSE s

\* str::trim
Trim(s) == TrimEnd(TrimStart(s))

\* str::split(','): the pieces between separators; never an empty list
\* (the empty text splits into one empty piece).
RECURSIVE SplitAcc(_, _, _)
SplitAcc(s, sep, cur) ==
  IF s = <<>> THEN <<cur>>
  ELSE IF Head(s) = sep
       THEN <<cur>> \o SplitAcc(Tail(s), sep, <<>>)
       ELSE SplitAcc(Tail(s), sep, Append(cur, Head(s)))

Split(s, sep) == SplitAcc(s, sep, <<>>)

\* Iterator::filter(|s| !s.is_empty())
RECURSIVE FilterNonEmpty(_)
FilterNonEmpty(ss) ==
  IF ss = <<>> THEN <<>>
  ELSE IF Head(ss) # <<>>
       THEN <<Head(ss)>> \o FilterNonEmpty(Tail(ss))
       ELSE FilterNonEmpty(Tail(ss))

\* Mutant of parse_tags: the trimmed pieces are kept even when empty.
parse_tags_keep_empty(raw) ==
  LET pieces == Split(raw, ",")
  IN  [k \in 1..Len(pieces) |-> Trim(pieces[k])]

\* new_tags.split(',').map(|s| s.trim().to_string())
\*         .filter(|s| !s.is_empty()).collect()
parse_tags(raw) ==
  LET pieces == Split(raw, ",")
  IN  FilterNonEmpty([k \in 1..Len(pieces) |-> Trim(pieces[k])])

\* Mutant of Join: the tags are joined by a space.
RECURSIVE Join_space(_)
Join_space(tags) ==
  IF tags = <<>> THEN <<>>
  ELSE IF Len(tags) = 1 THEN Head(tags)
       ELSE Head(tags) \o <<" ">> \o Join_space(Tail(tags))

\* [String]::join(", ")
RECURSIVE Join(_)
Join(tags) ==
  IF tags = <<>> THEN <<>>
  ELSE IF Len(tags) = 1 THEN Head(tags)
       ELSE Head(tags) \o <<",", " ">> \o Join(Tail(tags))

(* ------------------------------ Note ----------------------------------- *)

\* Utc::now(): the wall clock as it stands when the call is made.
Utc_now(now) == now

\* Mutant of Note_new: updated_at is not taken from the same clock reading.
Note_new_stale(title, content, tags, now) ==
  [title |-> title, content |-> content,
   created_at |-> now, updated_at |-> 0, tags |-> tags]

\* Note::new
Note_new(title, content, tags, now) ==
  [title |-> title, content |-> content,
   created_at |-> Utc_now(now), updated_at |-> Utc_now(now), tags |-> tags]

\* Note::update
Note_update(note, content, now) ==
  [note EXCEPT !.content = content, !.updated_at = Utc_now(now)]

(* ------------------------ notes.json codec ----------------------------- *)

\* serde_json string writer: a quote or a backslash is preceded by a backslash.
RECURSIVE json_escape(_)
json_escape(s) ==
  IF s = <<>> THEN <<>>
  ELSE IF Head(s) = "\"" \/ Head(s) = "\\"
       THEN <<"\\", Head(s)>> \o json_escape(Tail(s))
       ELSE <<Head(s)>> \o json_escape(Tail(s))

\* serde_json string reader: a backslash makes the next character literal.
RECURSIVE json_unescape(_)
json_unescape(s) ==
  IF s = <<>> THEN <<>>
  ELSE IF Head(s) = "\\" /\ Len(s) >= 2
       THEN <<s[2]>> \o json_unescape(Tail(Tail(s)))
       ELSE <<Head(s)>> \o json_unescape(Tail(s))

\* chrono's serde writer: RFC 3339, whole seconds and the sub-second part.
to_rfc3339(t) == [secs |-> t \div TicksPerSec, frac |-> t % TicksPerSec]

\* chrono's serde reader.
from_rfc3339(j) == j.secs * TicksPerSec + j.frac

\* #[derive(Serialize)] for Note
serialize_note(n) ==
  [title |-> json_escape(n.title), content |-> json_escape(n.content),
   created_at |-> to_rfc3339(n.created_at),
   updated_at |-> to_rfc3339(n.updated_at),
   tags |-> [k \in 1..Len(n.tags) |-> json_escape(n.tags[k])]]

\* #[derive(Deserialize)] for Note
deserialize_note(j) ==
  [title |-> json_unescape(j.title), content |-> json_unescape(j.content),
   created_at |-> from_rfc3339(j.created_at),
   updated_at |-> from_rfc3339(j.updated_at),
   tags |-> [k \in 1..Len(j.tags) |-> json_unescape(j.tags[k])]]

\* serde_json::to_string(&self.notes)
to_string(ns) == [k \in 1..Len(ns) |-> serialize_note(ns[k])]

\* serde_json::from_str(&data)
from_str(data) == [k \in 1..Len(data) |-> deserialize_note(data[k])]

\* The message of the panic that ended the process; NoPanic while it runs.
NoPanic    == ""
LoadPanic  == "Konnte JSON nicht lesen!"
WritePanic == "Fehler beim Schreiben!"
IndexPanic == "index out of bounds"

Panicked(s) == s.panic # NoPanic

\* notes.json does not exist.
AbsentFile == [exists |-> FALSE, valid |-> FALSE, data |-> <<>>]

\* notes.json exists and holds no JSON array of notes (cut short by a failed
\* write, or otherwise undecodable).
CorruptFile == [exists |-> TRUE, valid |-> FALSE, data |-> <<>>]

\* notes.json holding the serialization `data`.
FileOf(data) == [exists |-> TRUE, valid |-> TRUE, data |-> data]

\* Mutant of load_notes: a missing notes.json is read like any other and the
\* read fails.
load_notes_absent_panics(f) ==
  IF f.exists /\ f.valid
  THEN [panic |-> NoPanic, notes |-> from_str(f.data)]
  ELSE [panic |-> LoadPanic, notes |-> <<>>]

\* NotebookApp::load_notes: the collection, or a panic of one of the expects.
load_notes(f) ==
  IF f.exists
  THEN IF f.valid
       THEN [panic |-> NoPanic, notes |-> from_str(f.data)]
       ELSE [panic |-> LoadPanic, notes |-> <<>>]
  ELSE [panic |-> NoPanic, notes |-> <<>>]

(* --------------------------- NotebookApp ------------------------------- *)

\* The app while one handler runs: the fields of NotebookApp, notes.json, the
\* clock reading, the message of the panic that ended the process (NoPanic
\* while it runs), and the outcome the
\* file system gives to the writes of this handler (io.at = k: the k-th
\* fs::write fails, 0: none does; io.how: at "create", before the old content
\* is touched, or at "write", after the file was truncated).
AppState(io) ==
  [notes |-> notes, new_title |-> new_title, new_content |-> new_content,
   new_tags |-> new_tags, edit_index |-> edit_index, file |-> file,
   clock |-> clock, panic |-> panic, io |-> io, nwrites |-> 0]

NoFault == [at |-> 0, how |-> "create"]

\* The outcomes of the file system for a handler that writes at most n times.
Faults(n) == {NoFault} \cup [at : 1..n, how : {"create", "write"}]

\* Mutant of save_notes: nothing is written.
save_notes_skip(s) == [s EXCEPT !.nwrites = @ + 1]

\* Mutant of save_notes: the result of fs::write is dropped, not expected.
save_notes_ignore_error(s) ==
  LET k == s.nwrites + 1
  IN  IF s.io.at = k
      THEN [s EXCEPT !.nwrites = k,
                     !.file = IF s.io.how = "write" THEN CorruptFile ELSE @]
      ELSE [s EXCEPT !.nwrites = k, !.file = FileOf(to_string(s.notes))]

\* NotebookApp::save_notes
save_notes(s) ==
  LET k == s.nwrites + 1
  IN  IF s.io.at = k
      THEN [s EXCEPT !.nwrites = k, !.panic = WritePanic,
                     !.file = IF s.io.how = "write" THEN CorruptFile ELSE @]
      ELSE [s EXCEPT !.nwrites = k, !.file = FileOf(to_string(s.notes))]

\* Mutant of add_note: the new note is put in front.
add_note_front(s) ==
  save_notes([s EXCEPT
    !.notes = <<Note_new(s.new_title, s.new_content,
                         parse_tags(s.new_tags), s.clock)>> \o @,
    !.new_title = <<>>, !.new_content = <<>>, !.new_tags = <<>>])

\* NotebookApp::add_note
add_note(s) ==
  LET tags     == parse_tags(s.new_tags)
      new_note == Note_new(s.new_title, s.new_content, tags, s.clock)
  IN  save_notes([s EXCEPT !.notes = Append(@, new_note),
                           !.new_title = <<>>,
                           !.new_content = <<>>,
                           !.new_tags = <<>>])

\* Vec::remove(index), index < len
Vec_remove(v, index) == SubSeq(v, 1, index) \o SubSeq(v, index + 2, Len(v))

\* Mutant of delete_note_by_index: the bounds check admits index = len, where
\* Vec::remove panics.
delete_note_by_index_le(s, index) ==
  IF index <= Len(s.notes)
  THEN IF index = Len(s.notes)
       THEN [s EXCEPT !.panic = IndexPanic]
       ELSE save_notes([s EXCEPT !.notes = Vec_remove(@, index)])
  ELSE s

\* Mutant of delete_note_by_index: the note before the index is removed.
delete_note_by_index_prev(s, index) ==
  IF index < Len(s.notes)
  THEN save_notes([s EXCEPT
         !.notes = Vec_remove(@, IF index > 0 THEN index - 1 ELSE index)])
  ELSE s

\* Mutant of delete_note_by_index: deleting the note being edited ends the
\* edit session.
delete_note_by_index_end_session(s, index) ==
  IF index < Len(s.notes)
  THEN save_notes([s EXCEPT
         !.notes = Vec_remove(@, index),
         !.edit_index = IF @ = index THEN None ELSE @])
  ELSE s

\* NotebookApp::delete_note_by_index
delete_note_by_index(s, index) ==
  IF index < Len(s.notes)
  THEN save_notes([s EXCEPT !.notes = Vec_remove(@, index)])
  ELSE s

\* NotebookApp::update_note_by_index
update_note_by_index(s, index, content) ==
  IF index < Len(s.notes)
  THEN save_notes([s EXCEPT
         !.notes[index + 1] = Note_update(@, content, s.clock)])
  ELSE s

(* ------------------------ eframe::App::update -------------------------- *)

\* What the display surface reports in one frame: the notes whose
\* "Bearbeiten" and "Loeschen" buttons were clicked, the text the draft
\* fields hold after the user's typing (typed = <<>>: nothing was typed,
\* <<d>>: the fields now read d.title, d.content, d.tags), and whether the
\* button under the fields ("Aenderungen speichern" or "Neue Notiz
\* hinzufuegen") was clicked.
NoEvent == [edits |-> {}, dels |-> {}, typed |-> <<>>, button |-> FALSE]

\* Mutant of edit_clicked: a click during an edit session is ignored.
edit_clicked_keep_session(s, index) ==
  IF s.edit_index # None THEN s
  ELSE [s EXCEPT !.new_title   = s.notes[index + 1].title,
                 !.new_content = s.notes[index + 1].content,
                 !.new_tags    = Join(s.notes[index + 1].tags),
                 !.edit_index  = index]

\* The body of `if ui.button("Bearbeiten").clicked()`.
edit_clicked(s, index) ==
  [s EXCEPT !.new_title   = s.notes[index + 1].title,
            !.new_content = s.notes[index + 1].content,
            !.new_tags    = Join(s.notes[index + 1].tags),
            !.edit_index  = index]

\* for (index, note) in self.notes.iter().enumerate(): the edit clicks, in
\* ascending order of index, from `index` on.
RECURSIVE list_edits(_, _, _)
list_edits(s, index, ev) ==
  IF index >= Len(s.notes) THEN s
  ELSE list_edits(IF index \in ev.edits THEN edit_clicked(s, index) ELSE s,
                  index + 1, ev)

\* The same loop: indices_to_delete, the clicked indices in ascending order.
RECURSIVE indices_to_delete(_, _, _)
indices_to_delete(s, index, ev) ==
  IF index >= Len(s.notes) THEN <<>>
  ELSE (IF index \in ev.dels THEN <<index>> ELSE <<>>)
       \o indices_to_delete(s, index + 1, ev)

\* Mutant of delete_requested: the indices are taken in ascending order.
RECURSIVE delete_requested_ascending(_, _)
delete_requested_ascending(s, idxs) ==
  IF idxs = <<>> \/ Panicked(s) THEN s
  ELSE delete_requested_ascending(delete_note_by_index(s, Head(idxs)),
                                  Tail(idxs))

\* for &index in indices_to_delete.iter().rev(): a panic ends the loop.
RECURSIVE delete_requested(_, _)
delete_requested(s, idxs) ==
  IF idxs = <<>> \/ Panicked(s) THEN s
  ELSE delete_requested(delete_note_by_index(s, idxs[Len(idxs)]),
                        SubSeq(idxs, 1, Len(idxs) - 1))

\* ui.text_edit_singleline / text_edit_multiline on the draft fields.
text_edits(s, ev) ==
  IF ev.typed = <<>> THEN s
  ELSE [s EXCEPT !.new_title   = ev.typed[1].title,
                 !.new_content = ev.typed[1].content,
                 !.new_tags    = ev.typed[1].tags]

\* Mutant of save_changes: the title is not replaced and created_at is
\* refreshed with updated_at.
save_changes_content_only(s) ==
  LET i == s.edit_index
  IN  IF i >= Len(s.notes) THEN [s EXCEPT !.panic = IndexPanic]
      ELSE LET s1 == save_notes([s EXCEPT
                       !.notes[i + 1] =
                          [Note_update(@, s.new_content, s.clock) EXCEPT
                             !.created_at = s.clock,
                             !.tags = parse_tags(s.new_tags)]])
           IN  IF Panicked(s1) THEN s1
               ELSE [s1 EXCEPT !.new_title = <<>>, !.new_content = <<>>,
                               !.new_tags = <<>>, !.edit_index = None]

\* Mutant of save_changes: the editing index is kept after the commit.
save_changes_keep_index(s) ==
  LET i == s.edit_index
  IN  IF i >= Len(s.notes) THEN [s EXCEPT !.panic = IndexPanic]
      ELSE LET s1 == save_notes([s EXCEPT
                       !.notes[i + 1] =
                          [Note_update(@, s.new_content, s.clock) EXCEPT
                             !.title = s.new_title,
                             !.tags = parse_tags(s.new_tags)]])
           IN  IF Panicked(s1) THEN s1
               ELSE [s1 EXCEPT !.new_title = <<>>, !.new_content = <<>>,
                               !.new_tags = <<>>]

\* The body of `if !self.new_content.is_empty()` under "Aenderungen
\* speichern": self.notes[edit_index] panics when the index is out of bounds,
\* before anything is assigned.
save_changes(s) ==
  LET i    == s.edit_index
      tags == parse_tags(s.new_tags)
  IN  IF i >= Len(s.notes) THEN [s EXCEPT !.panic = IndexPanic]
      ELSE LET s1 == [s  EXCEPT !.notes[i + 1].title = s.new_title]
               s2 == [s1 EXCEPT !.notes[i + 1] =
                                   Note_update(@, s.new_content, s.clock)]
               s3 == [s2 EXCEPT !.notes[i + 1].tags = tags]
               s4 == save_notes(s3)
           IN  IF Panicked(s4) THEN s4
               ELSE [s4 EXCEPT !.new_title = <<>>, !.new_content = <<>>,
                               !.new_tags = <<>>, !.edit_index = None]

\* Mutant of button_clicked: the save branch does not test the draft content.
button_clicked_no_content_check(s, ev) ==
  IF s.edit_index # None
  THEN IF ev.button THEN save_changes(s) ELSE s
  ELSE IF ev.button /\ s.new_title # <<>> /\ s.new_content # <<>>
       THEN add_note(s)
       ELSE s

\* Mutant of button_clicked: the add branch comes first, whatever the editing
\* index.
button_clicked_add_first(s, ev) ==
  IF ev.button /\ s.new_title # <<>> /\ s.new_content # <<>>
  THEN add_note(s)
  ELSE IF s.edit_index # None /\ ev.button /\ s.new_content # <<>>
       THEN save_changes(s)
       ELSE s

\* The button under the draft fields: "Aenderungen speichern" while an
\* editing index is set, "Neue Notiz hinzufuegen" otherwise.
button_clicked(s, ev) ==
  IF s.edit_index # None
  THEN IF ev.button /\ s.new_content # <<>> THEN save_changes(s) ELSE s
  ELSE IF ev.button /\ s.new_title # <<>> /\ s.new_content # <<>>
       THEN add_note(s)
       ELSE s

\* eframe::App::update: one frame.  The list with its edit clicks, the
\* requested deletes, the draft fields, the button; a panic ends the frame.
update(s, ev) ==
  LET s1 == list_edits(s, 0, ev)
      s2 == delete_requested(s1, indices_to_delete(s, 0, ev))
      s3 == IF Panicked(s2) THEN s2 ELSE text_edits(s2, ev)
  IN  IF Panicked(s3) THEN s3 ELSE button_clicked(s3, ev)

(* ------------------------- the state machine --------------------------- *)

\* What the user types into the draft fields: a complete form, a form
\* without a title, and a form without content.
Drafts ==
  { [title |-> <<"t">>, content |-> <<"c">>,
     tags |-> <<" ", "a", ",", ",", "b">>],
    [title |-> <<>>, content |-> <<"\"">>, tags |-> <<"b">>],
    [title |-> <<"t">>, content |-> <<>>, tags |-> <<",">>] }

\* Notes written to notes.json by an earlier run of the program.
EarlierNotes ==
  << [title |-> <<"x">>, content |-> <<"\"">>, created_at |-> 0,
      updated_at |-> 0, tags |-> <<<<"a">>>>],
     [title |-> <<"y">>, content |-> <<"c">>, created_at |-> 0,
      updated_at |-> 0, tags |-> <<>>],
     [title |-> <<"z">>, content |-> <<"c">>, created_at |-> 0,
      updated_at |-> 0, tags |-> <<<<"a">>, <<"b">>>>] >>

\* notes.json as the program may find it at start: absent, written by an
\* earlier run, or undecodable.
InitFiles == {AbsentFile, FileOf(to_string(EarlierNotes)), CorruptFile}

\* The indices of the notes on display.
Indices == 0..(Len(notes) - 1)

\* The event of the last step: which handler ran, on which indices.
Event(op, ix) == [op |-> op, ix |-> ix]

\* main: the NotebookApp literal around load_notes().
Init ==
  /\ file \in InitFiles
  /\ notes = load_notes(file).notes
  /\ panic = load_notes(file).panic
  /\ new_title = <<>>
  /\ new_content = <<>>
  /\ new_tags = <<>>
  /\ edit_index = None
  /\ clock = 0
  /\ last = Event("init", {})

\* The variables after a handler that left the app as r.
Becomes(r, ev) ==
  /\ notes' = r.notes
  /\ new_title' = r.new_title
  /\ new_content' = r.new_content
  /\ new_tags' = r.new_tags
  /\ edit_index' = r.edit_index
  /\ file' = r.file
  /\ panic' = r.panic
  /\ clock' = clock
  /\ last' = ev

\* Time passes between two frames; the clock does not run backwards.
Tick ==
  /\ panic = NoPanic
  /\ clock < MaxClock
  /\ clock' = clock + 1
  /\ last' = Event("tick", {})
  /\ UNCHANGED <<notes, new_title, new_content, new_tags, edit_index, file,
                 panic>>

\* A frame in which "Bearbeiten" was clicked on the notes E.
FrameEdit ==
  /\ panic = NoPanic
  /\ \E E \in (SUBSET Indices) \ {{}} :
        Becomes(update(AppState(NoFault), [NoEvent EXCEPT !.edits = E]),
                Event("edit", E))

\* A frame in which "Loeschen" was clicked on the notes D.
FrameDelete ==
  /\ panic = NoPanic
  /\ \E D \in (SUBSET Indices) \ {{}} :
       \E io \in Faults(Cardinality(D)) :
          Becomes(update(AppState(io), [NoEvent EXCEPT !.dels = D]),
                  Event("delete", D))

\* A frame in which the user typed into the draft fields.
FrameType ==
  /\ panic = NoPanic
  /\ \E d \in Drafts :
        Becomes(update(AppState(NoFault), [NoEvent EXCEPT !.typed = <<d>>]),
                Event("type", {}))

\* A frame in which "Aenderungen speichern" was clicked.
FrameSave ==
  /\ panic = NoPanic
  /\ edit_index # None
  /\ \E io \in Faults(1) :
        Becomes(update(AppState(io), [NoEvent EXCEPT !.button = TRUE]),
                Event("save", {edit_index}))

\* A frame in which "Neue Notiz hinzufuegen" was clicked.
FrameAdd ==
  /\ panic = NoPanic
  /\ edit_index = None
  /\ Len(notes) < MaxNotes
  /\ \E io \in Faults(1) :
        Becomes(update(AppState(io), [NoEvent EXCEPT !.button = TRUE]),
                Event("add", {}))

Next == Tick \/ FrameEdit \/ FrameDelete \/ FrameType \/ FrameSave \/ FrameAdd

\* The program: main, then one frame after another.
Spec == Init /\ [][Next]_vars

(* ----------------- the store operations called directly ---------------- *)

\* Indices a caller may pass: those of the notes and two beyond the end.
CallIndices == 0..(Len(notes) + 1)

\* delete_note_by_index(index), called outside a frame.
CallDelete ==
  /\ panic = NoPanic
  /\ \E index \in CallIndices :
       \E io \in Faults(1) :
          Becomes(delete_note_by_index(AppState(io), index),
                  Event("call_delete", {index}))

\* update_note_by_index(index, new_content), called outside a frame with the
\* draft content.
CallUpdate ==
  /\ panic = NoPanic
  /\ \E index \in CallIndices :
       \E io \in Faults(1) :
          Becomes(update_note_by_index(AppState(io), index, new_content),
                  Event("call_update", {index}))

NextStore == Tick \/ FrameEdit \/ CallDelete \/ CallUpdate

\* The two index operations of the store called directly, on any index,
\* between frames that start edit sessions.
SpecStore == Init /\ [][NextStore]_vars

(* ----------------------- tag parsing on its own ------------------------ *)

\* The characters of a raw tags text.
TagChars == {"a", "b", ",", " "}

\* Every raw tags text of at most MaxRawLen characters.
RawTexts == UNION {[1..n -> TagChars] : n \in 0..MaxRawLen}

\* A fresh start with a filled-in form whose tags text is any raw text.
InitTags ==
  /\ file = AbsentFile
  /\ notes = load_notes(file).notes
  /\ panic = load_notes(file).panic
  /\ new_title = <<"t">>
  /\ new_content = <<"c">>
  /\ new_tags \in RawTexts
  /\ edit_index = None
  /\ clock = 0
  /\ last = Event("init", {})

NextTags == FrameAdd \/ FrameEdit \/ FrameSave

\* The form is added as a note, and the note is edited and saved again.
SpecTags == InitTags /\ [][NextTags]_vars

(* ------------------------- a fresh notebook ---------------------------- *)

\* main when no notes.json exists.
InitFresh ==
  /\ file = AbsentFile
  /\ notes = load_notes(file).notes
  /\ panic = load_notes(file).panic
  /\ new_title = <<>>
  /\ new_content = <<>>
  /\ new_tags = <<>>
  /\ edit_index = None
  /\ clock = 0
  /\ last = Event("init", {})

\* The program started on an empty collection.
SpecFresh == InitFresh /\ [][Next]_vars

(* ------------------------------ claims --------------------------------- *)

Running == panic = NoPanic

DraftsEmpty == new_title = <<>> /\ new_content = <<>> /\ new_tags = <<>>

\* The step is a frame in which the save button was clicked with non-empty
\* draft content.
SaveStep == last'.op = "save" /\ new_content # <<>>

\* The step is a frame in which the add button was clicked with a non-empty
\* draft title and non-empty draft content.
AddStep == last'.op = "add" /\ new_title # <<>> /\ new_content # <<>>

\* C1: while the process runs, notes.json reloaded is the in-memory
\* collection, an absent file counting as the empty collection; this holds
\* after every add, save-changes and delete, hence at the end of every frame.
C1_StorageEqualsMemory ==
  Running => /\ load_notes(file).panic = NoPanic
             /\ load_notes(file).notes = notes

\* A save-changes commit has written a note whose content needs escaping.
C1_Witness ==
  /\ Running
  /\ last.op = "save"
  /\ edit_index = None
  /\ file.exists
  /\ \E k \in 1..Len(notes) :
        notes[k].content = <<"\"">> /\ notes[k].updated_at > 0

\* C2: a save-changes click with non-empty draft content on an editing index
\* that is out of bounds leaves the collection unchanged and does not end the
\* process.
C2_SaveOutOfBoundsIsNoOp ==
  [][SaveStep /\ edit_index >= Len(notes)
       => panic' = NoPanic /\ notes' = notes]_vars

\* C3: a save-changes commit on an in-bounds editing index replaces title,
\* content and tags of that note, sets updated_at to the clock without
\* decreasing it, keeps created_at, the other notes and the length, and
\* writes the collection to notes.json.
C3_UpdateInBounds ==
  [][SaveStep /\ edit_index < Len(notes) /\ panic' = NoPanic
       => LET i == edit_index + 1
          IN  /\ Len(notes') = Len(notes)
              /\ notes'[i].title = new_title
              /\ notes'[i].content = new_content
              /\ notes'[i].tags = parse_tags(new_tags)
              /\ notes'[i].updated_at = clock
              /\ notes'[i].updated_at >= notes[i].updated_at
              /\ notes'[i].created_at = notes[i].created_at
              /\ \A k \in 1..Len(notes) : k # i => notes'[k] = notes[k]
              /\ file' = FileOf(to_string(notes'))]_vars

\* A save-changes commit has given a note an empty title, two tags or none,
\* and a later updated_at.
C3_Witness ==
  /\ Running
  /\ last.op = "save"
  /\ edit_index = None
  /\ \E k \in 1..Len(notes) :
        /\ notes[k].title = <<>>
        /\ notes[k].tags = <<<<"b">>>>
        /\ notes[k].updated_at > notes[k].created_at

\* C4: an add on a collection of size N gives size N+1, the first N notes
\* unchanged, and at index N a note with the draft title and content, the
\* parsed draft tags and created_at = updated_at.
C4_AddAppends ==
  [][AddStep
       => LET n == Len(notes)
          IN  /\ Len(notes') = n + 1
              /\ SubSeq(notes', 1, n) = notes
              /\ notes'[n + 1].title = new_title
              /\ notes'[n + 1].content = new_content
              /\ notes'[n + 1].tags = parse_tags(new_tags)
              /\ notes'[n + 1].created_at = notes'[n + 1].updated_at
              /\ notes'[n + 1].created_at = clock]_vars

\* An add has appended a second note, with two tags, at a later time.
C4_Witness ==
  /\ last.op = "add"
  /\ Len(notes) = 2
  /\ notes[2].tags = <<<<"a">>, <<"b">>>>
  /\ notes[2].created_at > notes[1].created_at

\* C5: a delete of the in-bounds index i shrinks the collection by one, keeps
\* the notes before i at their index and moves every note after i down by
\* one, with no field of a surviving note changed.
C5_DeleteShifts ==
  [][\A i \in Indices :
       last'.op = "delete" /\ last'.ix = {i}
         => /\ Len(notes') = Len(notes) - 1
            /\ \A k \in 0..(i - 1) : notes'[k + 1] = notes[k + 1]
            /\ \A k \in (i + 1)..(Len(notes) - 1) :
                  notes'[k] = notes[k + 1]]_vars

\* The middle note of three was deleted: one note kept its index, one moved.
C5_Witness ==
  /\ last.op = "delete"
  /\ last.ix = {1}
  /\ Len(notes) = 2
  /\ notes[1].title = <<"x">>
  /\ notes[2].title = <<"z">>

\* C6: delete_note_by_index and update_note_by_index on an index >= the
\* length leave the collection, the draft fields, the editing index and
\* notes.json unchanged and do not panic.
C6_OutOfBoundsNoOp ==
  [][\A i \in CallIndices :
       /\ last'.op \in {"call_delete", "call_update"}
       /\ last'.ix = {i}
       /\ i >= Len(notes)
       => /\ UNCHANGED <<notes, new_title, new_content, new_tags,
                         edit_index, file>>
          /\ panic' = NoPanic]_vars

\* An out-of-bounds update was called during an edit session on a non-empty
\* collection.
C6_Witness ==
  /\ last.op = "call_update"
  /\ \E i \in last.ix : i >= Len(notes)
  /\ Len(notes) >= 1
  /\ edit_index # None
  /\ new_content # <<>>

\* The notes of ns whose 0-based index is not in S, in their order.
RECURSIVE Survivors(_, _, _)
Survivors(ns, S, k) ==
  IF k >= Len(ns) THEN <<>>
  ELSE (IF k \in S THEN <<>> ELSE <<ns[k + 1]>>) \o Survivors(ns, S, k + 1)

\* C7: the deletes requested in one frame for a set S of indices leave
\* exactly the notes whose original index is not in S, in their original
\* order (which the descending order of processing ensures).
C7_BatchDelete ==
  [][last'.op = "delete" /\ panic' = NoPanic
       => notes' = Survivors(notes, last'.ix, 0)]_vars

\* Indices 0 and 2 of three notes were deleted in one frame.
C7_Witness ==
  /\ Running
  /\ last.op = "delete"
  /\ last.ix = {0, 2}
  /\ Len(notes) = 1
  /\ notes[1].title = <<"y">>

\* C8: every note has updated_at >= created_at.
C8_UpdatedNotBeforeCreated ==
  \A k \in 1..Len(notes) : notes[k].updated_at >= notes[k].created_at

\* A save-changes commit has moved a note's updated_at past its created_at.
C8_Witness ==
  /\ last.op = "save"
  /\ \E k \in 1..Len(notes) : notes[k].updated_at > notes[k].created_at

\* C9: after an add or a save-changes commit the three draft fields are
\* empty, and after a save-changes commit the editing index is absent.
C9_DraftsResetOnCommit ==
  [][/\ AddStep => DraftsEmpty'
     /\ SaveStep /\ edit_index < Len(notes) /\ panic' = NoPanic
          => DraftsEmpty' /\ edit_index' = None]_vars

\* A save-changes commit has just ended an edit session.
C9_Witness ==
  /\ Running
  /\ last.op = "save"
  /\ edit_index = None
  /\ DraftsEmpty
  /\ \E k \in 1..Len(notes) : notes[k].updated_at > 0

\* The positions of the commas of raw, and the positions where a piece
\* between commas starts.
CommaPositions(raw) == {p \in 1..Len(raw) : raw[p] = ","}
PieceStarts(raw) == {1} \cup {p + 1 : p \in CommaPositions(raw)}

\* The positions of the non-whitespace characters of the piece starting at b.
Visible(raw, b) ==
  {p \in b..Len(raw) :
     /\ raw[p] # " "
     /\ raw[p] # ","
     /\ \A q \in b..p : raw[q] # ","}

Lowest(S) == CHOOSE x \in S : \A y \in S : x <= y
Highest(S) == CHOOSE x \in S : \A y \in S : y <= x

\* The tokens of raw: for each piece with a visible character, in order of
\* position, the text from its first to its last visible character.
Tokens(raw) ==
  LET kept == {b \in PieceStarts(raw) : Visible(raw, b) # {}}
      nth(j) == CHOOSE b \in kept : Cardinality({c \in kept : c < b}) = j - 1
  IN  [j \in 1..Cardinality(kept) |->
         SubSeq(raw, Lowest(Visible(raw, nth(j))),
                     Highest(Visible(raw, nth(j))))]

\* What C10 says of the tags built from the raw text.
TagsParsedFrom(tags, raw) ==
  /\ tags = Tokens(raw)
  /\ \A k \in 1..Len(tags) :
        /\ tags[k] # <<>>
        /\ \A p \in 1..Len(tags[k]) : tags[k][p] # ","
        /\ tags[k][1] # " "
        /\ tags[k][Len(tags[k])] # " "
  /\ (\A p \in 1..Len(raw) : raw[p] \in {" ", ","}) => tags = <<>>

\* C10: the tags of an added or saved note are the comma-separated tokens
\* of the draft tags text, trimmed, empties dropped, in input order with
\* duplicates kept; each is non-empty, has no comma and no surrounding
\* whitespace; a text of whitespace and commas alone gives no tag.
C10_TagParsing ==
  [][/\ AddStep =>
          TagsParsedFrom(notes'[Len(notes')].tags, new_tags)
     /\ SaveStep /\ edit_index < Len(notes) /\ panic' = NoPanic =>
          TagsParsedFrom(notes'[edit_index + 1].tags, new_tags)]_vars

\* A note was added from a tags text with a duplicate token.
C10_Witness ==
  /\ last.op = "add"
  /\ Len(notes) = 1
  /\ notes[1].tags = <<<<"a">>, <<"a">>>>

\* C11: started without a notes.json, the program holds the empty collection
\* and has not panicked; at every start the editing index is absent and the
\* draft fields are empty.
C11_FreshStart ==
  last.op = "init" =>
    /\ edit_index = None
    /\ DraftsEmpty
    /\ ~file.exists => notes = <<>> /\ panic = NoPanic

\* The program has just started without a notes.json.
C11_Witness ==
  /\ last.op = "init"
  /\ file = AbsentFile
  /\ notes = <<>>
  /\ Running

\* C12: a notes.json that exists and cannot be decoded ends the process at
\* load, and a failed write ends it in persist: the process never runs over
\* an undecodable file (so such a file is never taken for the empty
\* collection), and once it has panicked nothing changes any more.
C12_FatalErrors ==
  /\ [](file.exists /\ ~file.valid => panic # NoPanic)
  /\ [](last.op = "init" /\ file.exists /\ ~file.valid => panic = LoadPanic)
  /\ [][panic # NoPanic => UNCHANGED vars]_vars

\* A write failed in persist after the file was truncated: the process has
\* panicked over a collection it had already changed.
C12_Witness ==
  /\ panic = WritePanic
  /\ file = CorruptFile
  /\ last.op = "add"
  /\ Len(notes) = 1

\* C13: a frame with edit clicks, in state Idle or Editing, sets the editing
\* index to the clicked index (the highest one when several were clicked, the
\* last in list order) and overwrites the drafts with that note's title,
\* content and tags joined by comma-space; collection and file are unchanged.
C13_EditRequest ==
  [][last'.op = "edit"
       => LET i == Highest(last'.ix)
          IN  /\ edit_index' = i
              /\ new_title' = notes[i + 1].title
              /\ new_content' = notes[i + 1].content
              /\ new_tags' = Join(notes[i + 1].tags)
              /\ (notes[i + 1].tags = <<<<"a">>, <<"b">>>>
                    => new_tags' = <<"a", ",", " ", "b">>)
              /\ UNCHANGED <<notes, file, panic>>]_vars

\* Two edit buttons were clicked in one frame and the later one, a note with
\* two tags, is the one being edited.
C13_Witness ==
  /\ last.op = "edit"
  /\ last.ix = {0, 2}
  /\ edit_index = 2
  /\ new_title = <<"z">>
  /\ new_tags = <<"a", ",", " ", "b">>

\* C14: a save click with empty draft content changes neither the
\* collection, the file, the drafts nor the editing index; the editing index
\* becomes absent only in a save frame with non-empty draft content.
C14_EmptySaveIsNoOp ==
  [][/\ last'.op = "save" /\ new_content = <<>>
          => UNCHANGED <<notes, file, new_title, new_content, new_tags,
                         edit_index, panic>>
     /\ edit_index # None /\ edit_index' = None
          => last'.op = "save" /\ new_content # <<>>]_vars

\* The save button was clicked on a form with a title and no content, and
\* the edit session goes on.
C14_Witness ==
  /\ Running
  /\ last.op = "save"
  /\ edit_index # None
  /\ new_content = <<>>
  /\ new_title # <<>>

\* C15: a frame with delete clicks leaves the editing index and the drafts
\* as they were; after a single delete at or before the editing index, that
\* index is out of bounds or designates the note that stood one place later.
C15_DeleteKeepsSession ==
  [][last'.op = "delete"
       => /\ UNCHANGED <<edit_index, new_title, new_content, new_tags>>
          /\ \A k \in Indices :
                last'.ix = {k} /\ edit_index # None /\ k <= edit_index
                  => \/ edit_index' >= Len(notes')
                     \/ /\ edit_index + 2 <= Len(notes)
                        /\ notes'[edit_index' + 1] = notes[edit_index + 2]]_vars

\* The note being edited was deleted and the editing index now designates
\* the note that followed it.
C15_Witness ==
  /\ Running
  /\ last.op = "delete"
  /\ last.ix = {1}
  /\ edit_index = 1
  /\ new_title = <<"y">>
  /\ Len(notes) = 2
  /\ notes[2].title = <<"z">>

\* C16: while the editing index is set the collection does not grow, and the
\* editing index becomes absent only by a save frame that committed.
C16_NoAddWhileEditing ==
  [][edit_index # None
       => /\ Len(notes') <= Len(notes)
          /\ last'.op # "add"
          /\ edit_index' = None
               => /\ last'.op = "save"
                  /\ panic' = NoPanic
                  /\ DraftsEmpty'
                  /\ file' = FileOf(to_string(notes'))]_vars

\* During an edit session the form holds a title and content, and the
\* collection has room: an add would be accepted were the session over.
C16_Witness ==
  /\ Running
  /\ edit_index # None
  /\ last.op = "type"
  /\ new_title # <<>>
  /\ new_content # <<>>
  /\ Len(notes) < MaxNotes

\* C17: a save click while the drafts still read what the edit click put
\* there (the note's title, content and joined tags) leaves title, content,
\* tags and created_at of the note, and every other note, unchanged: the
\* joined tags parse back to the same tags.
C17_EditRoundTrip ==
  [][(/\ last'.op = "save"
      /\ panic' = NoPanic
      /\ edit_index # None
      /\ edit_index < Len(notes)
      /\ new_title = notes[edit_index + 1].title
      /\ new_content = notes[edit_index + 1].content
      /\ new_tags = Join(notes[edit_index + 1].tags))
       => LET i == edit_index + 1
          IN  /\ Len(notes') = Len(notes)
              /\ notes'[i].title = notes[i].title
              /\ notes'[i].content = notes[i].content
              /\ notes'[i].tags = notes[i].tags
              /\ notes'[i].created_at = notes[i].created_at
              /\ \A k \in 1..Len(notes) : k # i => notes'[k] = notes[k]]_vars

\* A note with two tags was edited and saved.
C17_Witness ==
  /\ Running
  /\ last.op = "save"
  /\ edit_index = None
  /\ Len(notes) = 1
  /\ notes[1].tags = <<<<"b">>, <<"a">>>>

\* C18: started on an empty collection, every note has non-empty content,
\* and a note enters the collection only by an add, with a non-empty title.
C18_ContentNeverEmpty ==
  /\ [](\A k \in 1..Len(notes) : notes[k].content # <<>>)
  /\ [][Len(notes') > Len(notes)
          => /\ last'.op = "add"
             /\ notes'[Len(notes')].title # <<>>
             /\ notes'[Len(notes')].content # <<>>]_vars

\* A note created with a title has lost it in a later save-changes commit
\* and kept non-empty content.
C18_Witness ==
  /\ Running
  /\ last.op = "save"
  /\ \E k \in 1..Len(notes) :
        notes[k].title = <<>> /\ notes[k].content # <<>>

\* The created_at values of ns, in order.
CreatedAt(ns) == [k \in 1..Len(ns) |-> ns[k].created_at]

====
